---- MODULE Spec2Model ----
(***************************************************************************)
(* A model of rpki-history: the update job of db_scripts/rpki-history-db.py *)
(* (RPKIViews: full snapshots, RPKIFlutter: event streams) writing the      *)
(* vrps and metadata tables in one transaction per run, and the read-only   *)
(* queries of api/rpki-history-api.py over the committed tables.            *)
(*                                                                           *)
(* Timestamps are the integers 1..MaxTime; NoTs stands for Python's None    *)
(* and SQL's NULL.  A prefix is a pair (addr, len): the len leading bits of *)
(* an address, as a number.                                                 *)
(***************************************************************************)
EXTENDS Integers, Sequences, FiniteSets, TLC

\* ------------------------------------------------------------------ bounds
MaxTime == 3
MaxRuns == 3
MaxEvents == 3
PrefixBits == 2

\* None (a timestamp that is not set, an unbounded end of a range).
NoTs == 0

Time == 1..MaxTime

\* ------------------------------------------------------------------ values
\* VRP = namedtuple('VRP', ['prefix', 'asn', 'max_length'])
VRP(prefix, asn, max_length) ==
    [prefix |-> prefix, asn |-> asn, max_length |-> max_length]

Prefix(addr, len) == [addr |-> addr, len |-> len]

\* The VRP identities the feeds may contain: 0/1 for AS 1 and the more
\* specific 00/2 for AS 2.
VRPS == { VRP(Prefix(0, 1), 1, 1), VRP(Prefix(0, 2), 2, 2) }

RECURSIVE Pow2(_)
Pow2(n) == IF n = 0 THEN 1 ELSE 2 * Pow2(n - 1)

\* The prefixes a request may ask for: every prefix of at most PrefixBits bits.
QueryPrefixes ==
    UNION { { Prefix(a, l) : a \in 0..(Pow2(l) - 1) } : l \in 0..PrefixBits }

\* psycopg's Range(lower, upper, bounds): None is an unbounded end.
Range(lower, upper, bounds) ==
    [lower |-> lower, upper |-> upper, bounds |-> bounds]

\* PostgreSQL refuses a range whose lower bound is above its upper bound
\* ("range lower bound must be less than or equal to range upper bound").
ValidRange(r) ==
    r.lower = NoTs \/ r.upper = NoTs \/ r.lower <= r.upper

\* visible @> t: the range contains the point (ranges here are '[' below).
Contains(r, t) ==
    /\ (r.lower = NoTs \/ r.lower <= t)
    /\ \/ r.upper = NoTs
       \/ t < r.upper
       \/ (t = r.upper /\ r.bounds = "[]")

\* visible && range: the two ranges share a point.  Both are closed below,
\* so they do iff the greater of the lower bounds lies in both.
Overlaps(r, s) ==
    LET m == IF r.lower = NoTs THEN s.lower
             ELSE IF s.lower = NoTs THEN r.lower
             ELSE IF r.lower >= s.lower THEN r.lower ELSE s.lower
    IN  IF m = NoTs
        THEN TRUE
        ELSE Contains(r, m) /\ Contains(s, m)

\* prefix >>= q: the row's prefix contains or equals q.
SupernetOrEqual(p, q) ==
    /\ p.len <= q.len
    /\ q.addr \div Pow2(q.len - p.len) = p.addr

\* A row of the vrps table and the VRP it stores.
Row(id, vrp, visible) ==
    [id |-> id, prefix |-> vrp.prefix, asn |-> vrp.asn,
     max_length |-> vrp.max_length, visible |-> visible]

VrpOf(row) == VRP(row.prefix, row.asn, row.max_length)

IsOpen(row) == row.visible.upper = NoTs

\* ------------------------------------------------------------------ state
VARIABLES
    vrps,           \* the committed vrps table: a set of rows
    metadata,       \* the committed metadata table: rows in insertion order
    tx_vrps,        \* the vrps table as the update job's open transaction sees it
    tx_metadata,    \* the metadata table as the open transaction sees it
    pc,             \* where the update job stands
    mode,           \* "rpkiviews" or "rpkiflutter" (--mode)
    latest_ts,      \* self.latest_ts
    new_ts,         \* self.new_ts
    new_file_url,   \* whether self.new_file_url is set
    new_vrps,       \* RPKIViews.new_vrps
    latest_vrps,    \* self.latest_vrps: VRP -> (id, visible)
    update_rows,    \* RPKIFlutter.process_vrps: update_rows
    insert_rows,    \* RPKIFlutter.process_vrps: insert_rows
    insert_vrps,    \* RPKIFlutter.process_vrps: insert_vrps, VRP -> Range
    counters,       \* num_deleted_vrps, num_unchanged_vrps, num_new_vrps
    df_max,         \* the greatest capture_ts of the rows of self.df read so far
    fed,            \* bound: the event rows every run so far has consumed
    call,           \* a call of get_rpki_status: its arguments and its result
    pre_vrps,       \* history: the vrps table when the current run began
    pre_metadata,   \* history: the metadata table when the current run began
    prev_run        \* history: mode, new_ts and new_vrps of the last run that
                    \* committed and ended

store == <<vrps, metadata>>
tx == <<tx_vrps, tx_metadata>>
fetched == <<new_ts, new_file_url, new_vrps>>
flutter == <<update_rows, insert_rows, insert_vrps, counters, df_max>>
history == <<pre_vrps, pre_metadata, prev_run, fed, call>>
vars == <<vrps, metadata, tx_vrps, tx_metadata, pc, mode, latest_ts,
          new_ts, new_file_url, new_vrps, latest_vrps, update_rows, insert_rows,
          insert_vrps, counters, df_max, fed, call, pre_vrps, pre_metadata,
          prev_run>>

EmptyMap == [v \in {} |-> 0]
ZeroCounters == [deleted |-> 0, unchanged |-> 0, new |-> 0]
NoRun == [mode |-> "none", new_ts |-> NoTs, new_vrps |-> {}]
NoResult == [status |-> "none"]
NoCall == [vrps |-> <<>>, prefix |-> Prefix(0, 0), asn |-> 0, result |-> NoResult]

\* RPKIHistory.__init__, RPKIViews.__init__, the locals of process_vrps: every
\* run is a new process with a new object.
FreshObject ==
    /\ latest_ts = NoTs
    /\ new_ts = NoTs
    /\ new_file_url = FALSE
    /\ new_vrps = {}
    /\ latest_vrps = EmptyMap
    /\ update_rows = <<>>
    /\ insert_rows = <<>>
    /\ insert_vrps = EmptyMap
    /\ counters = ZeroCounters
    /\ df_max = NoTs

\* init_db: both tables exist and are empty; no update job runs.
InitDb ==
    /\ vrps = {}
    /\ metadata = <<>>
    /\ tx_vrps = {}
    /\ tx_metadata = <<>>
    /\ pc = "idle"
    /\ mode = "none"
    /\ FreshObject
    /\ fed = 0
    /\ pre_vrps = {}
    /\ pre_metadata = <<>>
    /\ prev_run = NoRun

Init ==
    /\ InitDb
    /\ call = NoCall

\* ------------------------------------------------------------------ SQL
\* SELECT dump_time FROM metadata ORDER BY dump_time DESC LIMIT 1
get_latest_dump_ts(meta) ==
    IF Len(meta) = 0
    THEN NoTs
    ELSE CHOOSE t \in { meta[i].dump_time : i \in 1..Len(meta) } :
            \A j \in 1..Len(meta) : meta[j].dump_time <= t

\* A row of the metadata table.
MetadataRow(dump_time, deleted, unchanged, new) ==
    [dump_time |-> dump_time, deleted_vrps |-> deleted,
     unchanged_vrps |-> unchanged, new_vrps |-> new]

\* id bigserial: rows are never deleted, so the next id is the row count + 1
\* (ids a rolled back run drew are not modelled: an id is only a label).
NextId(table) == Cardinality(table) + 1

\* UPDATE vrps SET visible = %s WHERE id = %s
SqlUpdate(table, visible, id) ==
    { IF r.id = id THEN [r EXCEPT !.visible = visible] ELSE r : r \in table }

\* INSERT INTO vrps (prefix, asn, max_length, visible) VALUES (%s, %s, %s, %s)
SqlInsert(table, vrp, visible) ==
    table \cup { Row(NextId(table), vrp, visible) }

\* c.executemany(UPDATE ..., rows): rows are (visible, id) pairs.
RECURSIVE ExecuteManyUpdate(_, _)
ExecuteManyUpdate(table, rows) ==
    IF rows = <<>>
    THEN table
    ELSE ExecuteManyUpdate(SqlUpdate(table, Head(rows)[1], Head(rows)[2]), Tail(rows))

\* c.executemany(INSERT ..., rows): rows are (vrp, visible) pairs.
RECURSIVE ExecuteManyInsert(_, _)
ExecuteManyInsert(table, rows) ==
    IF rows = <<>>
    THEN table
    ELSE ExecuteManyInsert(SqlInsert(table, Head(rows)[1], Head(rows)[2]), Tail(rows))

\* The elements of a set as a list, in one fixed order (Python iterates a set
\* or a dict in an order that only decides which id a new row gets).
RECURSIVE SetToSeq(_)
SetToSeq(S) ==
    IF S = {}
    THEN <<>>
    ELSE LET x == CHOOSE y \in S : TRUE
         IN  <<x>> \o SetToSeq(S \ {x})

AllValid(rows, k) == \A i \in 1..Len(rows) : ValidRange(rows[i][k])

\* dict assignment and dict.pop
MapSet(m, k, v) == [x \in DOMAIN m \cup {k} |-> IF x = k THEN v ELSE m[x]]
MapPop(m, k) == [x \in DOMAIN m \ {k} |-> m[x]]

\* ------------------------------------------------------------------ update job
Running == {"fetch", "load", "process", "update", "insert_rows", "insert", "commit"}

\* Where a failed run stood when its exception was raised.
FailedAt(p) ==
    CASE p = "fetch" -> "failed_fetch"
      [] p = "load" -> "failed_load"
      [] p = "process" -> "failed_process"
      [] p = "update" -> "failed_update"
      [] p = "insert_rows" -> "failed_insert_rows"
      [] p = "insert" -> "failed_insert"
      [] p = "commit" -> "failed_commit"

Failed == { FailedAt(p) : p \in Running }

ResetObject ==
    /\ latest_ts' = NoTs
    /\ new_ts' = NoTs
    /\ new_file_url' = FALSE
    /\ new_vrps' = {}
    /\ latest_vrps' = EmptyMap
    /\ update_rows' = <<>>
    /\ insert_rows' = <<>>
    /\ insert_vrps' = EmptyMap
    /\ counters' = ZeroCounters
    /\ df_max' = NoTs

\* `update [-m mode] [-t timestamp]`: a new process; update_db opens a cursor
\* and reads the latest dump time.  Its timestamp argument is drawn where it
\* is read, in the fetch that follows.
UpdateDb(m) ==
    /\ pc = "idle"
    /\ Len(metadata) < MaxRuns
    /\ mode' = m
    /\ latest_ts' = get_latest_dump_ts(tx_metadata)
    /\ pc' = "fetch"
    /\ pre_vrps' = vrps
    /\ pre_metadata' = metadata
    /\ UNCHANGED <<store, tx, fetched, latest_vrps, flutter, prev_run, fed, call>>

\* What a run keeps of self.new_ts: RPKIFlutter reads it only in the test of
\* fetch_and_read_new_file, so an event-stream run does not carry it further.
KeptNewTs(t) == IF mode = "rpkiviews" THEN t ELSE NoTs

\* update_db(timestamp) -> fetch_and_read_specific_file: the file of the
\* requested timestamp.  The snapshot's VRPs are read here; the event stream's
\* rows are drawn as process_vrps iterates over them.
FetchAndReadSpecificFile(ts) ==
    /\ pc = "fetch"
    /\ new_ts' = KeptNewTs(ts)
    /\ new_file_url' = TRUE
    /\ \E N \in SUBSET VRPS :
          new_vrps' = IF mode = "rpkiviews" THEN N ELSE {}
    /\ pc' = "load"
    /\ UNCHANGED <<store, tx, mode, latest_ts, latest_vrps, flutter, history>>

\* get_new_file_url: RPKIViews takes the newest file of the folder listing (none
\* when the listing fails or has no file); RPKIFlutter names yesterday's file.
GetNewFileUrl(found, t) ==
    /\ mode = "rpkiflutter" => found
    /\ new_ts' = IF found THEN KeptNewTs(t) ELSE NoTs
    /\ new_file_url' = found

\* fetch_and_read_new_file returning True: a file newer than the latest dump.
FetchAndReadNewFile ==
    /\ pc = "fetch"
    /\ \E t \in Time :
          /\ GetNewFileUrl(TRUE, t)
          /\ ~(latest_ts # NoTs /\ t <= latest_ts)
    /\ \E N \in SUBSET VRPS :
          new_vrps' = IF mode = "rpkiviews" THEN N ELSE {}
    /\ pc' = "load"
    /\ UNCHANGED <<store, tx, mode, latest_ts, latest_vrps, flutter, history>>

\* Mutant of NoNewData: the run that found no new file records a dump all the same.
NoNewDataRecordsDump ==
    /\ pc = "fetch"
    /\ latest_ts # NoTs
    /\ GetNewFileUrl(TRUE, latest_ts)
    /\ metadata' = Append(metadata, MetadataRow(latest_ts, 0, 0, 0))
    /\ tx_metadata' = metadata'
    /\ pc' = "nodata"
    /\ UNCHANGED <<vrps, tx_vrps, mode, latest_ts, new_vrps, latest_vrps, flutter, history>>

\* fetch_and_read_new_file returning False: update_db returns without a commit
\* and the connection is closed.
NoNewData ==
    /\ pc = "fetch"
    /\ \E t \in Time, found \in BOOLEAN :
          /\ GetNewFileUrl(found, t)
          /\ ~found \/ (latest_ts # NoTs /\ t <= latest_ts)
    /\ pc' = "nodata"
    /\ UNCHANGED <<store, tx, mode, latest_ts, new_vrps, latest_vrps, flutter, history>>

\* The rows get_latest_vrps selects: SELECT * FROM vrps WHERE visible @> latest_ts
LatestRows(table, ts) == { r \in table : Contains(r.visible, ts) }

\* rows_to_vrp: a dict VRP -> (id, visible); of several rows with one VRP the
\* one fetched last stays, and the table's order is not fixed.
RowsToVrp(rows) ==
    { f \in [ { VrpOf(r) : r \in rows } -> rows ] :
        \A v \in DOMAIN f : VrpOf(f[v]) = v }

get_latest_vrps ==
    /\ pc = "load"
    /\ IF latest_ts = NoTs
       THEN latest_vrps' = latest_vrps
       ELSE latest_vrps' \in RowsToVrp(LatestRows(tx_vrps, latest_ts))
    /\ pc' = "process"
    /\ UNCHANGED <<store, tx, mode, latest_ts, fetched, flutter, history>>

\* ---- RPKIViews.process_vrps
\* deleted_vrps, unchanged_vrps, insert_vrps of RPKIViews.process_vrps
DeletedVrps == DOMAIN latest_vrps \ new_vrps
UnchangedVrps == new_vrps \cap DOMAIN latest_vrps
InsertVrps == new_vrps \ DOMAIN latest_vrps

\* Mutant of ViewsMetadataRow: the deleted and the new count change places.
ViewsMetadataRowSwapped ==
    MetadataRow(new_ts, Cardinality(InsertVrps), Cardinality(UnchangedVrps),
                Cardinality(DeletedVrps))

\* The metadata row of a snapshot run.
ViewsMetadataRow ==
    MetadataRow(new_ts, Cardinality(DeletedVrps), Cardinality(UnchangedVrps),
                Cardinality(InsertVrps))

\* Mutant of ViewsCloseRange: the upper bound is exclusive.
ViewsCloseRangeExclusive(visible_range) == Range(visible_range.lower, latest_ts, "[)")

\* Mutant of ViewsCloseRange: the range ends at the dump being ingested.
ViewsCloseRangeNewTs(visible_range) == Range(visible_range.lower, new_ts, "[]")

\* Range(visible_range.lower, self.latest_ts, bounds='[]')
ViewsCloseRange(visible_range) == Range(visible_range.lower, latest_ts, "[]")

\* Mutant of ViewsOpenRange: the new range starts at the latest dump so far.
ViewsOpenRangeLatestTs == Range(latest_ts, NoTs, "[)")

\* Range(lower=self.new_ts, bounds='[)')
ViewsOpenRange == Range(new_ts, NoTs, "[)")

\* delete_data: one (visible, id) pair per deleted VRP.
ViewsDeleteData ==
    SetToSeq({ <<ViewsCloseRange(latest_vrps[v].visible), latest_vrps[v].id>> :
                 v \in DeletedVrps })

\* insert_data: one (vrp, visible) pair per inserted VRP.
ViewsInsertData == SetToSeq({ <<v, ViewsOpenRange>> : v \in InsertVrps })

\* INSERT INTO metadata ... (the first statement of RPKIViews.process_vrps)
ViewsInsertMetadata ==
    /\ pc = "process"
    /\ mode = "rpkiviews"
    /\ tx_metadata' = Append(tx_metadata, ViewsMetadataRow)
    /\ pc' = "update"
    /\ UNCHANGED <<store, tx_vrps, mode, latest_ts, fetched, latest_vrps, flutter, history>>

\* executemany(UPDATE vrps SET visible ..., delete_data)
ViewsUpdate ==
    /\ pc = "update"
    /\ mode = "rpkiviews"
    /\ AllValid(ViewsDeleteData, 1)
    /\ tx_vrps' = ExecuteManyUpdate(tx_vrps, ViewsDeleteData)
    /\ pc' = "insert"
    /\ UNCHANGED <<store, tx_metadata, mode, latest_ts, fetched, latest_vrps, flutter, history>>

\* executemany(INSERT INTO vrps ..., insert_data)
ViewsInsert ==
    /\ pc = "insert"
    /\ mode = "rpkiviews"
    /\ AllValid(ViewsInsertData, 2)
    /\ tx_vrps' = ExecuteManyInsert(tx_vrps, ViewsInsertData)
    /\ pc' = "commit"
    /\ UNCHANGED <<store, tx_metadata, mode, latest_ts, fetched, latest_vrps, flutter, history>>

\* ---- RPKIFlutter.process_vrps
EventTypes == {"S", "A", "W", "X"}

Max(a, b) == IF a >= b THEN a ELSE b

Count(field) == [counters EXCEPT ![field] = @ + 1]

\* Mutant of FlutterState: a VRP that is not active is counted as unchanged.
FlutterStateNoInsert(vrp, ts) ==
    /\ counters' = Count("unchanged")
    /\ UNCHANGED <<latest_vrps, update_rows, insert_rows, insert_vrps>>

\* case 'S'
FlutterState(vrp, ts) ==
    IF vrp \notin DOMAIN latest_vrps
    THEN /\ insert_vrps' = MapSet(insert_vrps, vrp, Range(ts, NoTs, "[)"))
         /\ counters' = Count("new")
         /\ UNCHANGED <<latest_vrps, update_rows, insert_rows>>
    ELSE /\ counters' = Count("unchanged")
         /\ UNCHANGED <<latest_vrps, update_rows, insert_rows, insert_vrps>>

\* Mutant of FlutterAnnounce: no test for a duplicate announce.
FlutterAnnounceDuplicates(vrp, ts) ==
    /\ counters' = Count("new")
    /\ insert_vrps' = MapSet(insert_vrps, vrp, Range(ts, NoTs, "[)"))
    /\ UNCHANGED <<latest_vrps, update_rows, insert_rows>>

\* case 'A'
FlutterAnnounce(vrp, ts) ==
    IF vrp \in DOMAIN latest_vrps \/ vrp \in DOMAIN insert_vrps
    THEN UNCHANGED <<latest_vrps, update_rows, insert_rows, insert_vrps, counters>>
    ELSE /\ counters' = Count("new")
         /\ insert_vrps' = MapSet(insert_vrps, vrp, Range(ts, NoTs, "[)"))
         /\ UNCHANGED <<latest_vrps, update_rows, insert_rows>>

\* Mutant of FlutterWithdraw: the withdrawn VRP stays in latest_vrps.
FlutterWithdrawKeepsActive(vrp, ts) ==
    IF vrp \notin DOMAIN latest_vrps /\ vrp \notin DOMAIN insert_vrps
    THEN UNCHANGED <<latest_vrps, update_rows, insert_rows, insert_vrps, counters>>
    ELSE /\ counters' = Count("deleted")
         /\ IF vrp \in DOMAIN latest_vrps
            THEN /\ update_rows' = Append(update_rows,
                        <<Range(latest_vrps[vrp].visible.lower, ts, "[]"),
                          latest_vrps[vrp].id>>)
                 /\ UNCHANGED <<latest_vrps, insert_rows, insert_vrps>>
            ELSE /\ insert_vrps' = MapPop(insert_vrps, vrp)
                 /\ insert_rows' = Append(insert_rows,
                        <<vrp, Range(insert_vrps[vrp].lower, ts, "[]")>>)
                 /\ UNCHANGED <<latest_vrps, update_rows>>

\* Mutant of FlutterWithdraw: the withdrawn VRP stays in insert_vrps.
FlutterWithdrawKeepsPending(vrp, ts) ==
    IF vrp \notin DOMAIN latest_vrps /\ vrp \notin DOMAIN insert_vrps
    THEN UNCHANGED <<latest_vrps, update_rows, insert_rows, insert_vrps, counters>>
    ELSE /\ counters' = Count("deleted")
         /\ IF vrp \in DOMAIN latest_vrps
            THEN /\ latest_vrps' = MapPop(latest_vrps, vrp)
                 /\ update_rows' = Append(update_rows,
                        <<Range(latest_vrps[vrp].visible.lower, ts, "[]"),
                          latest_vrps[vrp].id>>)
                 /\ UNCHANGED <<insert_rows, insert_vrps>>
            ELSE /\ insert_rows' = Append(insert_rows,
                        <<vrp, Range(insert_vrps[vrp].lower, ts, "[]")>>)
                 /\ UNCHANGED <<latest_vrps, update_rows, insert_vrps>>

\* case 'W'
FlutterWithdraw(vrp, ts) ==
    IF vrp \notin DOMAIN latest_vrps /\ vrp \notin DOMAIN insert_vrps
    THEN UNCHANGED <<latest_vrps, update_rows, insert_rows, insert_vrps, counters>>
    ELSE /\ counters' = Count("deleted")
         /\ IF vrp \in DOMAIN latest_vrps
            THEN /\ latest_vrps' = MapPop(latest_vrps, vrp)
                 /\ update_rows' = Append(update_rows,
                        <<Range(latest_vrps[vrp].visible.lower, ts, "[]"),
                          latest_vrps[vrp].id>>)
                 /\ UNCHANGED <<insert_rows, insert_vrps>>
            ELSE /\ insert_vrps' = MapPop(insert_vrps, vrp)
                 /\ insert_rows' = Append(insert_rows,
                        <<vrp, Range(insert_vrps[vrp].lower, ts, "[]")>>)
                 /\ UNCHANGED <<latest_vrps, update_rows>>

\* case _
FlutterUnknown ==
    UNCHANGED <<latest_vrps, update_rows, insert_rows, insert_vrps, counters>>

\* One pass of `for row in self.df.itertuples()`: the next row of the file,
\* whose rows are in the order of their capture_ts (equal ones included).
FlutterRow(type, vrp, ts) ==
    /\ pc = "process"
    /\ mode = "rpkiflutter"
    /\ fed < MaxEvents
    /\ df_max = NoTs \/ ts >= df_max
    /\ fed' = fed + 1
    /\ df_max' = Max(df_max, ts)
    /\ CASE type = "S" -> FlutterState(vrp, ts)
         [] type = "A" -> FlutterAnnounce(vrp, ts)
         [] type = "W" -> FlutterWithdraw(vrp, ts)
         [] OTHER -> FlutterUnknown
    /\ UNCHANGED <<store, tx, pc, mode, latest_ts, fetched, pre_vrps, pre_metadata,
                   prev_run, call>>

\* Mutant of FlutterMetadataRow: dump_time is the latest dump time the run
\* started from.
FlutterMetadataRowLatestTs ==
    MetadataRow(latest_ts, counters.deleted, counters.unchanged, counters.new)

\* The metadata row of an event-stream run: self.df['capture_ts'].max() and
\* the three counters.
FlutterMetadataRow ==
    MetadataRow(df_max, counters.deleted, counters.unchanged, counters.new)

\* INSERT INTO metadata ... after the last row.  The maximum of an empty
\* column is NaT, which is no timestamp: that INSERT fails (see Fail).
FlutterInsertMetadata ==
    /\ pc = "process"
    /\ mode = "rpkiflutter"
    /\ df_max # NoTs
    /\ tx_metadata' = Append(tx_metadata, FlutterMetadataRow)
    /\ pc' = "update"
    /\ UNCHANGED <<store, tx_vrps, mode, latest_ts, fetched, latest_vrps, flutter, history>>

\* executemany(UPDATE vrps SET visible ..., update_rows)
FlutterUpdate ==
    /\ pc = "update"
    /\ mode = "rpkiflutter"
    /\ AllValid(update_rows, 1)
    /\ tx_vrps' = ExecuteManyUpdate(tx_vrps, update_rows)
    /\ pc' = "insert_rows"
    /\ UNCHANGED <<store, tx_metadata, mode, latest_ts, fetched, latest_vrps, flutter, history>>

\* executemany(INSERT INTO vrps ..., insert_rows)
FlutterInsertRows ==
    /\ pc = "insert_rows"
    /\ mode = "rpkiflutter"
    /\ AllValid(insert_rows, 2)
    /\ tx_vrps' = ExecuteManyInsert(tx_vrps, insert_rows)
    /\ pc' = "insert"
    /\ UNCHANGED <<store, tx_metadata, mode, latest_ts, fetched, latest_vrps, flutter, history>>

\* Mutant of FlutterInsertData: every pending VRP starts at the last timestamp
\* of the stream.
FlutterInsertDataAtMax ==
    SetToSeq({ <<v, Range(df_max, NoTs, "[)")>> : v \in DOMAIN insert_vrps })

\* insert_data: one (vrp, visible) pair per item of insert_vrps.
FlutterInsertData == SetToSeq({ <<v, insert_vrps[v]>> : v \in DOMAIN insert_vrps })

\* executemany(INSERT INTO vrps ..., insert_data)
FlutterInsert ==
    /\ pc = "insert"
    /\ mode = "rpkiflutter"
    /\ AllValid(FlutterInsertData, 2)
    /\ tx_vrps' = ExecuteManyInsert(tx_vrps, FlutterInsertData)
    /\ pc' = "commit"
    /\ UNCHANGED <<store, tx_metadata, mode, latest_ts, fetched, latest_vrps, flutter, history>>

\* ---- the end of a run
\* self.conn.commit(): the transaction's tables become the committed ones.
Commit ==
    /\ pc = "commit"
    /\ vrps' = tx_vrps
    /\ metadata' = tx_metadata
    /\ pc' = "done"
    /\ UNCHANGED <<tx, mode, latest_ts, fetched, latest_vrps, flutter, history>>

\* Mutant of Rollback: __exit__ commits what the failed run wrote so far.
RollbackCommits ==
    /\ vrps' = tx_vrps
    /\ metadata' = tx_metadata
    /\ UNCHANGED tx

\* __exit__ with an exception: self.conn.rollback() drops what the transaction
\* wrote.
Rollback ==
    /\ tx_vrps' = vrps
    /\ tx_metadata' = metadata
    /\ UNCHANGED store

\* Any step of a run may raise: the HTTP request, tar, the parser, a statement
\* the database refuses (a range with lower > upper, a NaT dump_time), the
\* commit.  The exception leaves update_db and reaches __exit__.
Fail ==
    /\ pc \in Running
    /\ Rollback
    /\ pc' = FailedAt(pc)
    /\ ResetObject
    /\ UNCHANGED <<mode, history>>

\* The process ends (sys.exit); closing the connection without a commit drops
\* an open transaction, which has written nothing when no new data was found.
Exit ==
    /\ pc \in {"done", "nodata"} \cup Failed
    /\ pc' = "idle"
    /\ mode' = "none"
    /\ ResetObject
    /\ pre_vrps' = vrps
    /\ pre_metadata' = metadata
    /\ prev_run' = IF pc = "done"
                   THEN [mode |-> mode, new_ts |-> new_ts, new_vrps |-> new_vrps]
                   ELSE prev_run
    /\ UNCHANGED <<store, tx, fed, call>>

Modes == {"rpkiviews", "rpkiflutter"}

Next ==
    \/ \E m \in Modes : UpdateDb(m)
    \/ \E ts \in Time : FetchAndReadSpecificFile(ts)
    \/ FetchAndReadNewFile
    \/ NoNewData
    \/ get_latest_vrps
    \/ ViewsInsertMetadata
    \/ ViewsUpdate
    \/ ViewsInsert
    \/ \E type \in EventTypes, vrp \in VRPS, ts \in Time : FlutterRow(type, vrp, ts)
    \/ FlutterInsertMetadata
    \/ FlutterUpdate
    \/ FlutterInsertRows
    \/ FlutterInsert
    \/ Commit
    \/ Fail
    \/ Exit

Spec == Init /\ [][Next]_vars

\* ------------------------------------------------------------------ API
\* rows_to_vrp of the API: the columns of vrp_dict_fields of each row.
ApiRowsToVrp(rows) ==
    { [prefix |-> r.prefix, asn |-> r.asn, max_length |-> r.max_length,
       visible |-> r.visible] : r \in rows }

\* SELECT * FROM vrps WHERE prefix >>= %s AND visible @> %s
get_covering_vrps_for_prefix_at_time(table, prefix, ts) ==
    { r \in table : SupernetOrEqual(r.prefix, prefix) /\ Contains(r.visible, ts) }

\* SELECT * FROM vrps WHERE prefix >>= %s AND visible && %s ORDER BY visible
get_covering_vrps_for_prefix_within_timerange(table, prefix, timerange) ==
    { r \in table : SupernetOrEqual(r.prefix, prefix) /\ Overlaps(r.visible, timerange) }

\* The loop of get_rpki_status over the covering VRPs, in their order:
\* "Valid" at the first match, else whether a VRP of the origin AS was seen.
RECURSIVE StatusLoop(_, _, _, _)
StatusLoop(covering, prefix, asn, same_origin_asn_found) ==
    IF covering = <<>>
    THEN IF same_origin_asn_found THEN "moreSpecific" ELSE "noMatchingOrigin"
    ELSE LET vrp == Head(covering)
         IN  IF vrp.asn = 0 \/ vrp.asn # asn
             THEN StatusLoop(Tail(covering), prefix, asn, same_origin_asn_found)
             ELSE IF prefix.len <= vrp.max_length
                  THEN "Valid"
                  ELSE StatusLoop(Tail(covering), prefix, asn, TRUE)

\* Mutant of get_rpki_status: the loop without its `vrp['asn'] == 0` test.
RECURSIVE StatusLoopZeroMatches(_, _, _, _)
StatusLoopZeroMatches(covering, prefix, asn, same_origin_asn_found) ==
    IF covering = <<>>
    THEN IF same_origin_asn_found THEN "moreSpecific" ELSE "noMatchingOrigin"
    ELSE LET vrp == Head(covering)
         IN  IF vrp.asn # asn
             THEN StatusLoopZeroMatches(Tail(covering), prefix, asn, same_origin_asn_found)
             ELSE IF prefix.len <= vrp.max_length
                  THEN "Valid"
                  ELSE StatusLoopZeroMatches(Tail(covering), prefix, asn, TRUE)

get_rpki_status_zero_matches(covering, prefix, asn) ==
    IF covering = <<>>
    THEN [status |-> "NotFound"]
    ELSE LET res == StatusLoopZeroMatches(covering, prefix, asn, FALSE)
         IN  IF res = "Valid"
             THEN [status |-> "Valid"]
             ELSE [status |-> "Invalid", reason |-> res]

\* Mutant of get_rpki_status: a covering VRP of AS 0 matches every origin.
RECURSIVE StatusLoopZeroWildcard(_, _, _, _)
StatusLoopZeroWildcard(covering, prefix, asn, same_origin_asn_found) ==
    IF covering = <<>>
    THEN IF same_origin_asn_found THEN "moreSpecific" ELSE "noMatchingOrigin"
    ELSE LET vrp == Head(covering)
         IN  IF vrp.asn # 0 /\ vrp.asn # asn
             THEN StatusLoopZeroWildcard(Tail(covering), prefix, asn, same_origin_asn_found)
             ELSE IF prefix.len <= vrp.max_length
                  THEN "Valid"
                  ELSE StatusLoopZeroWildcard(Tail(covering), prefix, asn, TRUE)

get_rpki_status_zero_wildcard(covering, prefix, asn) ==
    IF covering = <<>>
    THEN [status |-> "NotFound"]
    ELSE LET res == StatusLoopZeroWildcard(covering, prefix, asn, FALSE)
         IN  IF res = "Valid"
             THEN [status |-> "Valid"]
             ELSE [status |-> "Invalid", reason |-> res]

\* get_rpki_status, given the covering VRPs its query returned: the status,
\* and the reason code of an Invalid.
get_rpki_status(covering, prefix, asn) ==
    IF covering = <<>>
    THEN [status |-> "NotFound"]
    ELSE LET res == StatusLoop(covering, prefix, asn, FALSE)
         IN  IF res = "Valid"
             THEN [status |-> "Valid"]
             ELSE [status |-> "Invalid", reason |-> res]

\* The view dump_time_range: the least and the greatest dump_time of metadata.
dump_time_range(meta) ==
    IF Len(meta) = 0
    THEN <<NoTs, NoTs>>
    ELSE LET times == { meta[i].dump_time : i \in 1..Len(meta) }
         IN  << CHOOSE t \in times : \A u \in times : t <= u,
                CHOOSE t \in times : \A u \in times : u <= t >>

\* get_available_dump_time_range: (earliest, latest), or (None, None).
get_available_dump_time_range(meta) == dump_time_range(meta)

HTTPNotFound == [status |-> 404]
HTTPBadRequest == [status |-> 400]
HTTPInternalServerError == [status |-> 500]
HTTPOk(rows, media) == [status |-> 200, rows |-> rows, media |-> media]

\* Mutant of FormatVrps: visible.to is the upper bound as stored.
FormatVrpsStoredUpper(rows, latest) ==
    { [prefix |-> r.prefix, asn |-> r.asn, max_length |-> r.max_length,
       visible |-> [from |-> r.visible.lower, to |-> r.visible.upper]] : r \in rows }

\* The formatting loop of VRPResource.on_get: visible becomes {from, to},
\* with the latest dump time for a range without an upper bound.
FormatVrps(rows, latest) ==
    { [prefix |-> r.prefix, asn |-> r.asn, max_length |-> r.max_length,
       visible |-> [from |-> r.visible.lower,
                    to |-> IF r.visible.upper = NoTs THEN latest
                           ELSE r.visible.upper]] : r \in ApiRowsToVrp(rows) }

\* Mutant of TimestampOutside: a timestamp after the latest dump is let through.
TimestampOutsideNoUpper(ts, earliest, latest) ==
    earliest = NoTs \/ ts < earliest

\* The test of a point query's timestamp against the available dumps.
TimestampOutside(ts, earliest, latest) ==
    earliest = NoTs \/ ts < earliest \/ ts > latest

\* The test of a range query's bounds against the available dumps.
TimerangeOutside(ts_start, ts_end, earliest, latest) ==
    \/ earliest = NoTs
    \/ (ts_start # NoTs /\ ts_start < earliest)
    \/ (ts_end # NoTs /\ ts_end > latest)

\* VRPResource.on_get for a parsed prefix; a parameter that is absent is NoTs.
\* rows are the rows the query selected, media the response body.
VrpOnGet(table, meta, prefix, ts, ts_gte, ts_lte) ==
    LET earliest == get_available_dump_time_range(meta)[1]
        latest == get_available_dump_time_range(meta)[2]
        timerange == Range(ts_gte, ts_lte, "[]")
    IN  IF ts # NoTs /\ (ts_gte # NoTs \/ ts_lte # NoTs)
        THEN HTTPBadRequest
        ELSE IF ts # NoTs
        THEN IF TimestampOutside(ts, earliest, latest)
             THEN HTTPNotFound
             ELSE LET rows == get_covering_vrps_for_prefix_at_time(table, prefix, ts)
                  IN  HTTPOk(rows, FormatVrps(rows, latest))
        ELSE IF ts_gte # NoTs \/ ts_lte # NoTs
        THEN IF TimerangeOutside(ts_gte, ts_lte, earliest, latest)
             THEN HTTPNotFound
             ELSE IF ~ValidRange(timerange)
             THEN HTTPInternalServerError
             ELSE LET rows == get_covering_vrps_for_prefix_within_timerange(
                                  table, prefix, timerange)
                  IN  HTTPOk(rows, FormatVrps(rows, latest))
        ELSE IF latest = NoTs
             THEN HTTPInternalServerError
             ELSE LET rows == get_covering_vrps_for_prefix_at_time(table, prefix, latest)
                  IN  HTTPOk(rows, FormatVrps(rows, latest))

\* StatusResource.on_get for a parsed prefix and asn.
StatusOnGet(table, meta, prefix, asn, ts) ==
    LET earliest == get_available_dump_time_range(meta)[1]
        latest == get_available_dump_time_range(meta)[2]
        at == IF ts # NoTs THEN ts ELSE latest
    IN  IF ts # NoTs /\ TimestampOutside(ts, earliest, latest)
        THEN HTTPNotFound
        ELSE IF ts = NoTs /\ latest = NoTs
        THEN HTTPInternalServerError
        ELSE [status |-> 200,
              media |-> get_rpki_status(
                  SetToSeq(get_covering_vrps_for_prefix_at_time(table, prefix, at)),
                  prefix, asn)]

\* ---- get_rpki_status on its own: any covering list, prefix and origin AS
MaxCovering == 2
MaxAsn == 2

CoveringVrps ==
    { VRP(Prefix(0, l), a, m) : l \in 0..PrefixBits, a \in 0..MaxAsn, m \in 0..PrefixBits }

CoveringLists ==
    UNION { [1..n -> CoveringVrps] : n \in 0..MaxCovering }

InitStatus ==
    /\ InitDb
    /\ \E c \in CoveringLists, l \in 0..PrefixBits, a \in 0..MaxAsn :
          call = [vrps |-> c, prefix |-> Prefix(0, l), asn |-> a, result |-> NoResult]

\* The call returns.
GetRpkiStatus ==
    /\ call.result = NoResult
    /\ call' = [call EXCEPT !.result = get_rpki_status(call.vrps, call.prefix, call.asn)]
    /\ UNCHANGED <<store, tx, pc, mode, latest_ts, fetched, latest_vrps, flutter,
                   pre_vrps, pre_metadata, prev_run, fed>>

SpecStatus == InitStatus /\ [][GetRpkiStatus]_vars

\* ---- MetadataResource.on_get
\* self.MAX_PAGE_SIZE
MAX_PAGE_SIZE == 10000

\* A parameter the request does not have (page_size, page: both are >= 1).
NoParam == 0

\* The orders `ORDER BY dump_time` may return the rows in: every arrangement
\* of them with non-decreasing dump_time (rows of one dump_time in any order).
RECURSIVE OrderFrom(_, _)
OrderFrom(rows, S) ==
    IF S = {}
    THEN { <<>> }
    ELSE UNION { { <<rows[i]>> \o rest : rest \in OrderFrom(rows, S \ {i}) } :
                 i \in { j \in S : \A k \in S : rows[j].dump_time <= rows[k].dump_time } }

OrderByDumpTime(rows) == OrderFrom(rows, 1..Len(rows))

\* WHERE dump_time >= %s AND dump_time <= %s, each test only if given.
RECURSIVE MetadataWhere(_, _, _)
MetadataWhere(meta, ts_gte, ts_lte) ==
    IF meta = <<>>
    THEN <<>>
    ELSE LET e == Head(meta)
             keep == /\ (ts_gte = NoTs \/ e.dump_time >= ts_gte)
                     /\ (ts_lte = NoTs \/ e.dump_time <= ts_lte)
         IN  (IF keep THEN <<e>> ELSE <<>>) \o MetadataWhere(Tail(meta), ts_gte, ts_lte)

\* LIMIT %s OFFSET %s
LimitOffset(rows, limit, offset) ==
    SubSeq(rows, offset + 1, IF offset + limit <= Len(rows) THEN offset + limit ELSE Len(rows))

\* formatted_results
FormatMetadata(rows) ==
    [i \in 1..Len(rows) |->
        [timestamp |-> rows[i].dump_time, deleted_vrps |-> rows[i].deleted_vrps,
         unchanged_vrps |-> rows[i].unchanged_vrps, new_vrps |-> rows[i].new_vrps]]

\* An empty next_uri.
NoNext == [page |-> NoParam]

\* The parameters of the URI of the next page.
NextUri(ts_gte, ts_lte, page_size, page) ==
    [ts_gte |-> ts_gte, ts_lte |-> ts_lte, page_size |-> page_size, page |-> page + 1]

\* Mutant of MetadataNext: a page with any result has a next_uri.
MetadataNextIfAny(results, ts_gte, ts_lte, page_size, page) ==
    IF Len(results) > 0
    THEN NextUri(ts_gte, ts_lte, page_size, page)
    ELSE NoNext

\* next_uri: only if the page is full.
MetadataNext(results, ts_gte, ts_lte, page_size, page) ==
    IF Len(results) = page_size
    THEN NextUri(ts_gte, ts_lte, page_size, page)
    ELSE NoNext

\* MetadataResource.on_get, the rows as the query returned them in `ordered`:
\* page_size and page are NoParam when the request has none.
MetadataOnGet(ordered, ts_gte, ts_lte, page_size_param, page_param) ==
    LET page_size == IF page_size_param = NoParam THEN MAX_PAGE_SIZE ELSE page_size_param
        page == IF page_param = NoParam THEN 1 ELSE page_param
        results == FormatMetadata(LimitOffset(ordered, page_size, (page - 1) * page_size))
    IN  IF page_size < 1 \/ page_size > MAX_PAGE_SIZE \/ page < 1
        THEN HTTPBadRequest
        ELSE [status |-> 200,
              media |-> [next |-> MetadataNext(results, ts_gte, ts_lte, page_size, page),
                         results |-> results]]

\* ---- paging through /metadata: a client asks for the first page and follows
\* every next_uri, over a metadata table of empty snapshots
MaxMetadataRows == 5
MaxPageSize == 3

MetadataTimes == 1..MaxMetadataRows

\* The metadata tables of up to MaxMetadataRows snapshot runs, each for a
\* dump_time of its own, in any order of ingestion, each of an empty snapshot.
MetadataTables ==
    UNION { { m \in [1..n -> { MetadataRow(t, 0, 0, 0) : t \in MetadataTimes }] :
                \A i, j \in 1..n : i # j => m[i].dump_time # m[j].dump_time } :
            n \in 0..MaxMetadataRows }

InitMetadata ==
    /\ vrps = {}
    /\ metadata \in MetadataTables
    /\ tx_vrps = {}
    /\ tx_metadata = metadata
    /\ pc = "idle"
    /\ mode = "none"
    /\ FreshObject
    /\ fed = 0
    /\ pre_vrps = {}
    /\ pre_metadata = metadata
    /\ prev_run = IF metadata = <<>>
                  THEN NoRun
                  ELSE [mode |-> "rpkiviews", new_ts |-> metadata[Len(metadata)].dump_time,
                        new_vrps |-> {}]
    /\ \E ps \in 1..MaxPageSize, gte \in {NoTs, 2}, lte \in {NoTs, MaxMetadataRows - 1} :
          call = [request |-> [ts_gte |-> gte, ts_lte |-> lte, page_size |-> ps,
                               page |-> NoParam],
                  pages |-> <<>>]

\* The request of the next page: the first one, or the last page's next_uri.
NextRequest ==
    IF call.pages = <<>> THEN call.request ELSE call.pages[Len(call.pages)].next

\* GET /metadata: the next page is fetched.
GetMetadataPage ==
    /\ NextRequest # NoNext
    /\ \E ordered \in OrderByDumpTime(
              MetadataWhere(metadata, NextRequest.ts_gte, NextRequest.ts_lte)) :
          call' = [call EXCEPT !.pages = Append(@,
                      MetadataOnGet(ordered, NextRequest.ts_gte, NextRequest.ts_lte,
                                    NextRequest.page_size, NextRequest.page).media)]
    /\ UNCHANGED <<store, tx, pc, mode, latest_ts, fetched, latest_vrps, flutter,
                   pre_vrps, pre_metadata, prev_run, fed>>

SpecMetadata == InitMetadata /\ [][GetMetadataPage]_vars

\* ================================================================== claims
Range1(seq) == { seq[i] : i \in 1..Len(seq) }
DumpTimes(meta) == { meta[i].dump_time : i \in 1..Len(meta) }
Ids(table) == { r.id : r \in table }
RowById(table, id) == CHOOSE r \in table : r.id = id
AsnValues == 0..MaxAsn

\* The committed tables change at a commit only, and every run ends: the
\* states between runs show every content the tables ever have.
Quiescent == pc = "idle"

\* ---- C1
\* C1 (as claimed): in the committed vrps table, any two rows of one VRP have
\* visibility ranges that do not overlap, and at most one row of a VRP is open.
C1_NonOverlappingOneOpen ==
    \A r1 \in vrps, r2 \in vrps :
        (r1.id # r2.id /\ VrpOf(r1) = VrpOf(r2)) =>
            /\ ~Overlaps(r1.visible, r2.visible)
            /\ ~(IsOpen(r1) /\ IsOpen(r2))

\* ---- C2
\* C2: when a run has failed, at whichever step, the committed vrps and
\* metadata tables are the ones the run found, and nothing it wrote is left
\* in the transaction.
C2_FailedRunLeavesStore ==
    pc \in Failed =>
        /\ vrps = pre_vrps
        /\ metadata = pre_metadata
        /\ tx_vrps = vrps
        /\ tx_metadata = metadata

\* A snapshot run that failed at its commit, after its metadata row and its
\* interval statements, over a table that already had rows.
C2_Witness ==
    /\ pc = "failed_commit"
    /\ mode = "rpkiviews"
    /\ vrps # {}
    /\ Len(metadata) >= 1

\* ---- C3
\* Whether a covering VRP has the origin AS and a max_length that allows the prefix.
C3_SameAsn(covering, asn) == { v \in Range1(covering) : v.asn = asn }
C3_SameNonZeroAsn(covering, asn) == { v \in Range1(covering) : v.asn = asn /\ v.asn # 0 }

C3_Rfc6811(covering, prefix, matching) ==
    IF covering = <<>>
    THEN [status |-> "NotFound"]
    ELSE IF \E v \in matching : prefix.len <= v.max_length
    THEN [status |-> "Valid"]
    ELSE IF matching # {}
    THEN [status |-> "Invalid", reason |-> "moreSpecific"]
    ELSE [status |-> "Invalid", reason |-> "noMatchingOrigin"]

\* C3 (as claimed): NotFound iff the covering set is empty; else Valid iff a
\* covering VRP has the queried asn and allows the prefix length; else
\* moreSpecific iff a covering VRP has the queried asn; else noMatchingOrigin.
C3_StatusAsClaimed ==
    call.result # NoResult =>
        call.result = C3_Rfc6811(call.vrps, call.prefix, C3_SameAsn(call.vrps, call.asn))

\* C3 (amended): the same, where a covering VRP matches the origin only if its
\* asn equals the queried asn and is not 0.
C3_StatusNonZeroOrigin ==
    call.result # NoResult =>
        call.result = C3_Rfc6811(call.vrps, call.prefix,
                                 C3_SameNonZeroAsn(call.vrps, call.asn))

\* A returned call for origin AS 0 whose covering VRPs include one of AS 0 that
\* allows the prefix length.
C3_Witness ==
    /\ call.result = [status |-> "Invalid", reason |-> "noMatchingOrigin"]
    /\ call.asn = 0
    /\ \E v \in Range1(call.vrps) : v.asn = 0 /\ call.prefix.len <= v.max_length

\* ---- C4
C4_OutOfHistory(t) ==
    \/ \A d \in DumpTimes(metadata) : t < d
    \/ \A d \in DumpTimes(metadata) : t > d

\* C4: a point query of /vrp or /status for a timestamp before every ingested
\* dump, after every ingested dump, or with no dump ingested, is answered 404
\* (over the committed tables as every commit leaves them).
C4_OutOfRangeIsNotFound ==
    Quiescent =>
    \A t \in Time : C4_OutOfHistory(t) =>
        \A q \in QueryPrefixes :
            /\ VrpOnGet(vrps, metadata, q, t, NoTs, NoTs) = HTTPNotFound
            /\ \A a \in AsnValues : StatusOnGet(vrps, metadata, q, a, t) = HTTPNotFound

\* Dumps are ingested, a VRP is visible at the latest one, and a timestamp
\* lies before the earliest dump and another after the latest.
C4_Witness ==
    /\ Quiescent
    /\ Len(metadata) >= 2
    /\ \E r \in vrps : IsOpen(r)
    /\ \E t \in Time : \A d \in DumpTimes(metadata) : t < d
    /\ \E t \in Time : \A d \in DumpTimes(metadata) : t > d

\* ---- C5
\* The rows this run closed: open when the run began, closed now.
ClosedByRun ==
    { r \in vrps : ~IsOpen(r) /\ \E p \in pre_vrps : p.id = r.id /\ IsOpen(p) }

\* The time at which the run withdrew the row: the dump being ingested (a
\* snapshot), the withdraw event's capture_ts (an event stream).
C5_WithdrawnAt(r) == IF mode = "rpkiviews" THEN new_ts ELSE r.visible.upper

InHistory(t) == \E d1 \in DumpTimes(metadata), d2 \in DumpTimes(metadata) : d1 <= t /\ t <= d2

\* The bounds of a range query: one of them at least is given.
RangeBounds ==
    { b \in (Time \cup {NoTs}) \X (Time \cup {NoTs}) :
        /\ b # <<NoTs, NoTs>>
        /\ (b[1] # NoTs /\ b[2] # NoTs) => b[1] <= b[2] }

\* [s, e] and [lo, hi] share a point (NoTs: unbounded on that side).
RangeMeets(s, e, lo, hi) == (s = NoTs \/ s <= hi) /\ (e = NoTs \/ lo <= e)

\* Row r is among the point query's rows at every in-history t in [lo, hi] and
\* at no t outside; it is among an answered range query's rows iff the range
\* meets [lo, hi].
C5_ReturnedExactlyWithin(r, lo, hi) ==
    \A q \in { p \in QueryPrefixes : SupernetOrEqual(r.prefix, p) } :
        /\ \A t \in Time :
              LET resp == VrpOnGet(vrps, metadata, q, t, NoTs, NoTs)
              IN  /\ (InHistory(t) /\ lo <= t /\ t <= hi) =>
                        (resp.status = 200 /\ r \in resp.rows)
                  /\ (t < lo \/ t > hi) => (resp.status = 200 => r \notin resp.rows)
        /\ \A b \in RangeBounds :
              LET resp == VrpOnGet(vrps, metadata, q, NoTs, b[1], b[2])
              IN  resp.status = 200 =>
                      (r \in resp.rows <=> RangeMeets(b[1], b[2], lo, hi))

C6_ClosedAtDumpTime ==
    (pc = "done" /\ mode = "rpkiviews") =>
        \A v \in DOMAIN latest_vrps \ new_vrps :
            LET r == RowById(vrps, latest_vrps[v].id)
            IN  /\ VrpOf(r) = v
                /\ r.visible.lower = RowById(pre_vrps, r.id).visible.lower
                /\ r.visible.upper = metadata[Len(metadata)].dump_time
                /\ r.visible.bounds = "[]"

\* C6 (amended): the row is closed at the latest dump_time the metadata table
\* held when the run began (latest_ts), inclusive, with its start kept.
C6_ClosedAtLatestTs ==
    (pc = "done" /\ mode = "rpkiviews") =>
        \A v \in DOMAIN latest_vrps \ new_vrps :
            LET r == RowById(vrps, latest_vrps[v].id)
            IN  /\ VrpOf(r) = v
                /\ r.visible.lower = RowById(pre_vrps, r.id).visible.lower
                /\ r.visible.upper \in DumpTimes(pre_metadata)
                /\ \A d \in DumpTimes(pre_metadata) : d <= r.visible.upper
                /\ r.visible.bounds = "[]"

\* A snapshot run for a dump later than the latest one has closed an open row.
C6_Witness ==
    /\ pc = "done"
    /\ mode = "rpkiviews"
    /\ new_ts > latest_ts
    /\ \E v \in DOMAIN latest_vrps \ new_vrps : IsOpen(RowById(pre_vrps, latest_vrps[v].id))

\* ---- C7
NewRows == { r \in vrps : r.id \notin Ids(pre_vrps) }

\* C7: after a snapshot run, every VRP of the new observation that is not in
\* the active set has exactly one new row, which starts at dump_time and has no
\* upper bound, and no other row is new.
C7_InsertedOpenAtDumpTime ==
    (pc = "done" /\ mode = "rpkiviews") =>
        /\ \A v \in new_vrps \ DOMAIN latest_vrps :
              /\ Cardinality({ r \in NewRows : VrpOf(r) = v }) = 1
              /\ \A r \in NewRows : VrpOf(r) = v =>
                    /\ r.visible.lower = metadata[Len(metadata)].dump_time
                    /\ r.visible.lower = new_ts
                    /\ r.visible.upper = NoTs
        /\ \A r \in NewRows : VrpOf(r) \in new_vrps \ DOMAIN latest_vrps
        /\ Cardinality(vrps) = Cardinality(pre_vrps) + Cardinality(NewRows)

\* A snapshot run has inserted one VRP and left another unchanged.
C7_Witness ==
    /\ pc = "done"
    /\ mode = "rpkiviews"
    /\ new_vrps \ DOMAIN latest_vrps # {}
    /\ new_vrps \cap DOMAIN latest_vrps # {}
    /\ NewRows # {}

\* ---- C8
\* C8: a successful snapshot run appends one metadata row (dump_time, |A \ N|,
\* |A /\ N|, |N \ A|), so deleted + unchanged = |A| and unchanged + new = |N|,
\* and the rows before it stay as they were.
C8_OneMetadataRow ==
    (pc = "done" /\ mode = "rpkiviews") =>
        LET A == DOMAIN latest_vrps
            N == new_vrps
            row == metadata[Len(metadata)]
        IN  /\ Len(metadata) = Len(pre_metadata) + 1
            /\ SubSeq(metadata, 1, Len(pre_metadata)) = pre_metadata
            /\ row.dump_time = new_ts
            /\ row.deleted_vrps = Cardinality(A \ N)
            /\ row.unchanged_vrps = Cardinality(A \cap N)
            /\ row.new_vrps = Cardinality(N \ A)
            /\ row.deleted_vrps + row.unchanged_vrps = Cardinality(A)
            /\ row.unchanged_vrps + row.new_vrps = Cardinality(N)

\* A snapshot run over earlier metadata has deleted one VRP and inserted none.
C8_Witness ==
    /\ pc = "done"
    /\ mode = "rpkiviews"
    /\ Len(pre_metadata) >= 1
    /\ metadata[Len(metadata)].deleted_vrps = 1
    /\ metadata[Len(metadata)].new_vrps = 0

\* ---- C9
\* C9 (as claimed): a snapshot run with the observation and the dump_time of the
\* snapshot run before it finds every observed VRP unchanged, deletes and
\* inserts none, and leaves the vrps table as that run left it.
C9_SecondRunChangesNothing ==
    (/\ pc = "done"
     /\ mode = "rpkiviews"
     /\ prev_run = [mode |-> "rpkiviews", new_ts |-> new_ts, new_vrps |-> new_vrps]) =>
        /\ vrps = pre_vrps
        /\ new_vrps \cap DOMAIN latest_vrps = new_vrps
        /\ DOMAIN latest_vrps \ new_vrps = {}
        /\ new_vrps \ DOMAIN latest_vrps = {}

\* ---- C10
\* C10 (as claimed): a snapshot run whose observation is empty does not close
\* the row of every VRP of a non-empty active set.
C10_EmptyObservationIsNoWithdrawal ==
    (/\ pc = "done"
     /\ mode = "rpkiviews"
     /\ new_vrps = {}
     /\ DOMAIN latest_vrps # {}) =>
        \E v \in DOMAIN latest_vrps : IsOpen(RowById(vrps, latest_vrps[v].id))

\* ---- C11
\* A row of the event stream is read: withdraw of a VRP of the working active set.
C11_WithdrawActive(v, ts) == FlutterRow("W", v, ts) /\ v \in DOMAIN latest_vrps

\* A row of the event stream is read: announce of a VRP that an earlier
\* withdraw of this run took out of the working active set.
C11_AnnounceAfterWithdraw(v, ts) ==
    /\ FlutterRow("A", v, ts)
    /\ \E i \in 1..Len(update_rows) :
          /\ VrpOf(RowById(tx_vrps, update_rows[i][2])) = v
          /\ update_rows[i][1].upper < ts
    /\ v \notin DOMAIN insert_vrps

\* What a committed event-stream run leaves of its working collections: every
\* pair of update_rows is a record of pre_vrps with that range now, and every
\* VRP of insert_vrps has exactly one new open record, starting where
\* insert_vrps says; the metadata row holds the counters.
C11_RunApplied ==
    (pc = "done" /\ mode = "rpkiflutter") =>
        /\ \A i \in 1..Len(update_rows) :
              LET id == update_rows[i][2]
              IN  /\ id \in Ids(pre_vrps)
                  /\ RowById(vrps, id) =
                        [RowById(pre_vrps, id) EXCEPT !.visible = update_rows[i][1]]
        /\ \A r \in vrps : r.id \in Ids(pre_vrps) =>
              \/ r = RowById(pre_vrps, r.id)
              \/ \E i \in 1..Len(update_rows) : update_rows[i][2] = r.id
        /\ \A v \in DOMAIN insert_vrps :
              /\ Cardinality({ r \in NewRows : VrpOf(r) = v /\ IsOpen(r) }) = 1
              /\ \A r \in NewRows : (VrpOf(r) = v /\ IsOpen(r)) =>
                    r.visible = insert_vrps[v]
        /\ \A r \in NewRows : IsOpen(r) => VrpOf(r) \in DOMAIN insert_vrps
        /\ metadata[Len(metadata)].deleted_vrps = counters.deleted
        /\ metadata[Len(metadata)].new_vrps = counters.new

\* C11: in an event-stream run, withdraw(V, t1) of an active V puts
\* ([prev_start, t1], V's record) on the rows to update, takes V out of the
\* working active set and counts one deleted; a later announce(V, t2), t1 < t2,
\* is then accepted: V's new interval starts at t2 and one new is counted; the
\* committed run leaves V's old record closed as [prev_start, t1] and exactly
\* one new open record of V starting at t2, and its metadata row holds the counts.
C11_WithdrawThenAnnounce ==
    /\ [][\A v \in VRPS, ts \in Time :
            /\ C11_WithdrawActive(v, ts) =>
                  /\ update_rows' = Append(update_rows,
                        <<Range(latest_vrps[v].visible.lower, ts, "[]"), latest_vrps[v].id>>)
                  /\ v \notin DOMAIN latest_vrps'
                  /\ counters' = [counters EXCEPT !.deleted = @ + 1]
            /\ C11_AnnounceAfterWithdraw(v, ts) =>
                  /\ v \in DOMAIN insert_vrps'
                  /\ insert_vrps'[v] = Range(ts, NoTs, "[)")
                  /\ counters' = [counters EXCEPT !.new = @ + 1]]_vars
    /\ []C11_RunApplied

\* A committed event-stream run read a state row of an active VRP, the withdraw
\* of the active V at t1 and a row that opened V again at t2, t1 < t2: one
\* unchanged, one deleted and one new are counted.
C11_Witness ==
    /\ pc = "done"
    /\ mode = "rpkiflutter"
    /\ counters = [deleted |-> 1, unchanged |-> 1, new |-> 1]
    /\ Len(update_rows) = 1
    /\ \E v \in DOMAIN insert_vrps :
          /\ VrpOf(RowById(vrps, update_rows[1][2])) = v
          /\ update_rows[1][1].upper < insert_vrps[v].lower
          /\ update_rows[1][1].lower < update_rows[1][1].upper

\* ---- C12
\* A row of the event stream is read: announce of a VRP that is neither active
\* nor pending.
C12_AnnounceNew(v, ts) ==
    /\ FlutterRow("A", v, ts)
    /\ v \notin DOMAIN latest_vrps
    /\ v \notin DOMAIN insert_vrps

\* A row of the event stream is read: withdraw of a VRP this run announced.
C12_WithdrawPending(v, ts) ==
    /\ FlutterRow("W", v, ts)
    /\ v \notin DOMAIN latest_vrps
    /\ v \in DOMAIN insert_vrps

\* The records of insert_rows, as the committed run stored them: one new
\* closed record per entry, with the entry's range, and no other new closed record.
C12_InsertRowsStored ==
    (pc = "done" /\ mode = "rpkiflutter") =>
        LET closed == { r \in NewRows : ~IsOpen(r) }
        IN  /\ Cardinality(closed) = Len(insert_rows)
            /\ \A i \in 1..Len(insert_rows) :
                  \E r \in closed :
                      /\ VrpOf(r) = insert_rows[i][1]
                      /\ r.visible = insert_rows[i][2]
                      /\ r.visible.bounds = "[]"
            /\ \A r \in closed :
                  \E i \in 1..Len(insert_rows) :
                      <<VrpOf(r), r.visible>> = insert_rows[i]
            /\ Cardinality(NewRows) = Len(insert_rows) + Cardinality(DOMAIN insert_vrps)

\* C12: in an event-stream run, the announce at ts1 of a VRP that is not active
\* makes it pending from ts1 and counts one new; its withdraw at ts2 later in
\* the run takes it out of the pending map, puts the bounded [ts1, ts2] on the
\* rows to insert and counts one deleted; the committed run stores one closed
\* record per such pair, and a new open record only for what is still pending.
C12_AnnounceThenWithdraw ==
    /\ [][\A v \in VRPS, ts \in Time :
            /\ C12_AnnounceNew(v, ts) =>
                  /\ insert_vrps' = MapSet(insert_vrps, v, Range(ts, NoTs, "[)"))
                  /\ counters' = [counters EXCEPT !.new = @ + 1]
                  /\ UNCHANGED <<insert_rows, update_rows>>
            /\ C12_WithdrawPending(v, ts) =>
                  /\ insert_rows' = Append(insert_rows,
                        <<v, Range(insert_vrps[v].lower, ts, "[]")>>)
                  /\ v \notin DOMAIN insert_vrps'
                  /\ counters' = [counters EXCEPT !.deleted = @ + 1]
                  /\ UNCHANGED update_rows]_vars
    /\ []C12_InsertRowsStored

\* A committed event-stream run announced a VRP that was not active and
\* withdrew it later: it is stored closed, counted new once and deleted once,
\* and has no open record.
C12_Witness ==
    /\ pc = "done"
    /\ mode = "rpkiflutter"
    /\ counters = [deleted |-> 1, unchanged |-> 0, new |-> 1]
    /\ Len(insert_rows) = 1
    /\ insert_rows[1][2].lower < insert_rows[1][2].upper
    /\ DOMAIN insert_vrps = {}
    /\ \A r \in vrps : VrpOf(r) = insert_rows[1][1] => ~IsOpen(r)

\* ---- C13
\* A bound that is present and lies outside [earliest, latest].
C13_BoundOutside(b) ==
    b # NoTs /\ \/ \A d \in DumpTimes(metadata) : b < d
                \/ \A d \in DumpTimes(metadata) : b > d

\* C13 (as claimed): a range query of /vrp is answered 404 whenever one of the
\* bounds it gives lies outside [earliest, latest], whichever bound and
\* whichever side.
C13_RangeBoundOutsideIsNotFound ==
    Quiescent =>
        \A q \in QueryPrefixes, b \in RangeBounds :
            (C13_BoundOutside(b[1]) \/ C13_BoundOutside(b[2])) =>
                VrpOnGet(vrps, metadata, q, NoTs, b[1], b[2]) = HTTPNotFound

\* ---- C14
\* Every request /vrp may get: a point query, a range query, or neither.
VrpRequests ==
    { <<t, NoTs, NoTs>> : t \in Time \cup {NoTs} } \cup
    { <<NoTs, b[1], b[2]>> : b \in RangeBounds }

\* The prefixes some VRP of the feeds covers: a response for any other prefix
\* has no rows.
CoveredPrefixes == { q \in QueryPrefixes : \E v \in VRPS : SupernetOrEqual(v.prefix, q) }

\* The responses to all of them over the committed tables.
VrpResponses ==
    { VrpOnGet(vrps, metadata, q, req[1], req[2], req[3]) :
        q \in CoveredPrefixes, req \in VrpRequests }

LatestDumpTime == CHOOSE d \in DumpTimes(metadata) : \A e \in DumpTimes(metadata) : e <= d

\* What the response shows of a stored row.
C14_Shown(r) ==
    [prefix |-> r.prefix, asn |-> r.asn, max_length |-> r.max_length,
     visible |-> [from |-> r.visible.lower,
                  to |-> IF IsOpen(r) THEN LatestDumpTime ELSE r.visible.upper]]

\* C14: in every successful /vrp response, a row whose stored range is open
\* is shown with visible.to = the latest dump time, a row whose range is closed
\* with visible.to = its stored upper bound, and no visible.to is unset.
C14_VisibleToIsBounded ==
    Quiescent =>
        \A resp \in VrpResponses :
            resp.status = 200 =>
                /\ resp.media = { C14_Shown(r) : r \in resp.rows }
                /\ \A m \in resp.media : m.visible.to # NoTs

\* A response holds an open row and a closed row, and the open row began
\* before the latest dump.
C14_Witness ==
    /\ Quiescent
    /\ \E resp \in VrpResponses :
              /\ resp.status = 200
              /\ \E r \in resp.rows : IsOpen(r) /\ r.visible.lower < LatestDumpTime
              /\ \E r \in resp.rows : ~IsOpen(r)

\* ---- C15
\* The paging is over: the last page fetched has no next_uri.
C15_PagingDone == call.pages # <<>> /\ call.pages[Len(call.pages)].next = NoNext

RECURSIVE C15_Concat(_)
C15_Concat(pages) ==
    IF pages = <<>> THEN <<>> ELSE Head(pages).results \o C15_Concat(Tail(pages))

\* The rows the request selects, ordered by dump_time (all distinct here).
C15_AllOrdered ==
    FormatMetadata(CHOOSE o \in OrderByDumpTime(
        MetadataWhere(metadata, call.request.ts_gte, call.request.ts_lte)) : TRUE)

\* The pages fetched so far are the leading rows of the ordered list, and all
\* of it when the paging is over.
C15_PagesConcatenate ==
    LET got == C15_Concat(call.pages)
    IN  /\ Len(got) <= Len(C15_AllOrdered)
        /\ got = SubSeq(C15_AllOrdered, 1, Len(got))
        /\ C15_PagingDone => got = C15_AllOrdered

\* C15 (as claimed): the pages concatenate to the full ordered list, and next
\* is empty on the page that holds the final row and on no earlier page.
C15_NextEmptyOnFinalRowPage ==
    /\ C15_PagesConcatenate
    /\ \A k \in 1..Len(call.pages) :
          LET upto == C15_Concat(SubSeq(call.pages, 1, k))
          IN  (call.pages[k].next = NoNext) <=>
                  (Len(C15_AllOrdered) > 0 /\ Len(upto) = Len(C15_AllOrdered)
                     /\ Len(call.pages[k].results) > 0)
                  \/ (Len(C15_AllOrdered) = 0)

\* C15 (amended): the pages concatenate to the full ordered list, and next is
\* empty exactly on a page that holds fewer than page_size rows: every page
\* before the one of the final row has a next, and so has the page of the
\* final row when it is full, which then leads to one empty last page.
C15_NextEmptyOnShortPage ==
    /\ C15_PagesConcatenate
    /\ \A k \in 1..Len(call.pages) :
          /\ (call.pages[k].next = NoNext) <=>
                 (Len(call.pages[k].results) < call.request.page_size)
          /\ call.pages[k].next # NoNext =>
                 /\ call.pages[k].next.page = k + 1
                 /\ call.pages[k].next.page_size = call.request.page_size
          /\ Len(C15_Concat(SubSeq(call.pages, 1, k))) < Len(C15_AllOrdered) =>
                 call.pages[k].next # NoNext

\* Five rows read in pages of two: three pages, the third with the last row
\* and no next.
C15_Witness ==
    /\ Len(metadata) = 5
    /\ call.request = [ts_gte |-> NoTs, ts_lte |-> NoTs, page_size |-> 2, page |-> NoParam]
    /\ Len(call.pages) = 3
    /\ Len(call.pages[3].results) = 1
    /\ call.pages[3].next = NoNext
    /\ \E i \in 1..4 : metadata[i].dump_time > metadata[i + 1].dump_time

\* ---- C16
\* C16 (as claimed): a committed run keeps every record it found, with its
\* identity and its start; a record that was closed stays as it was, and a
\* record that was open is the same or has got an upper bound.
C16_HistoryIsPermanent ==
    pc = "done" =>
        \A p \in pre_vrps :
            /\ p.id \in Ids(vrps)
            /\ LET r == RowById(vrps, p.id)
               IN  /\ VrpOf(r) = VrpOf(p)
                   /\ r.visible.lower = p.visible.lower
                   /\ ~IsOpen(p) => r = p
                   /\ IsOpen(p) => (r = p \/ r.visible.upper # NoTs)

\* ---- C17
\* C17 (as claimed): in the committed metadata table, every row has a
\* dump_time greater than that of every row inserted before it.
C17_DumpTimeMonotonic ==
    \A i, j \in 1..Len(metadata) :
        i < j => metadata[i].dump_time < metadata[j].dump_time

\* ---- C18
\* C18: when every covering VRP has asn 0 or an asn other than the queried
\* one, whatever the queried asn, 0 included, the status is Invalid with reason
\* noMatchingOrigin.
C18_AsnZeroNeverMatches ==
    (/\ call.result # NoResult
     /\ call.vrps # <<>>
     /\ \A v \in Range1(call.vrps) : v.asn = 0 \/ v.asn # call.asn) =>
        call.result = [status |-> "Invalid", reason |-> "noMatchingOrigin"]

\* A returned call for origin AS 0 over two covering VRPs of AS 0, one that
\* allows the prefix length and one that does not.
C18_Witness ==
    /\ call.result # NoResult
    /\ call.asn = 0
    /\ Len(call.vrps) = 2
    /\ \A v \in Range1(call.vrps) : v.asn = 0
    /\ \E v \in Range1(call.vrps) : call.prefix.len <= v.max_length
    /\ \E v \in Range1(call.vrps) : call.prefix.len > v.max_length

\* ---- C19
\* The records of the active set a snapshot run loaded, by their ids.
ActiveIds == { latest_vrps[v].id : v \in DOMAIN latest_vrps }

\* C19 (as claimed): after a snapshot run, the record of every VRP that is in
\* the active set and in the new observation is as it was, and is open; every
\* record that was not in the active set is as it was.
C19_UnchangedStayOpen ==
    (pc = "done" /\ mode = "rpkiviews") =>
        /\ \A v \in new_vrps \cap DOMAIN latest_vrps :
              LET id == latest_vrps[v].id
              IN  /\ id \in Ids(vrps)
                  /\ RowById(vrps, id) = RowById(pre_vrps, id)
                  /\ IsOpen(RowById(vrps, id))
        /\ \A p \in pre_vrps :
              p.id \notin ActiveIds => (p.id \in Ids(vrps) /\ RowById(vrps, p.id) = p)

\* ---- C20
\* get_latest_vrps has returned and process_vrps has not yet read an event row.
C20_JustLoaded == pc = "process" /\ df_max = NoTs

\* C20 (as claimed): the active set get_latest_vrps loaded holds every record
\* of the vrps table that is open, each under its VRP, and no closed record.
C20_ActiveSetIsOpenRecords ==
    C20_JustLoaded =>
        /\ ActiveIds = { r.id : r \in { x \in vrps : IsOpen(x) } }
        /\ \A v \in DOMAIN latest_vrps :
              /\ latest_vrps[v] \in vrps
              /\ VrpOf(latest_vrps[v]) = v

\* ---- C21
\* An event that contradicts the working collections: an announce of a VRP
\* that is active or pending, a withdraw of one that is neither, an unknown type.
C21_Inconsistent(type, v) ==
    \/ type = "A" /\ (v \in DOMAIN latest_vrps \/ v \in DOMAIN insert_vrps)
    \/ type = "W" /\ v \notin DOMAIN latest_vrps /\ v \notin DOMAIN insert_vrps
    \/ type \notin {"S", "A", "W"}

\* C21: in an event-stream run, reading an inconsistent event changes no
\* working collection, no counter and no table, and leaves the run in its row
\* loop; the loop takes a further row whatever it has read.
C21_InconsistentEventSkipped ==
    /\ [][\A type \in EventTypes, v \in VRPS, ts \in Time :
            (FlutterRow(type, v, ts) /\ C21_Inconsistent(type, v)) =>
                /\ UNCHANGED <<latest_vrps, update_rows, insert_rows, insert_vrps,
                               counters, store, tx>>
                /\ pc' = "process"]_vars
    /\ []((pc = "process" /\ mode = "rpkiflutter" /\ fed < MaxEvents) =>
            \A type \in EventTypes, v \in VRPS :
                ENABLED FlutterRow(type, v, MaxTime))

\* A committed event-stream run read an announce at 1 and, after it, an event
\* at 2 that neither counted nor changed a collection.
C21_Witness ==
    /\ pc = "done"
    /\ mode = "rpkiflutter"
    /\ counters = [deleted |-> 0, unchanged |-> 0, new |-> 1]
    /\ \E v \in DOMAIN insert_vrps : insert_vrps[v].lower = 1
    /\ df_max = 2
    /\ metadata[Len(metadata)].dump_time = 2

\* ---- C22
\* C22: in an event-stream run, state(vrp, ts) of a VRP of the working active
\* set changes no collection and counts one unchanged; state(vrp, ts) of a VRP
\* that is not in it makes vrp pending from ts and counts one new; either way
\* the run stays in its row loop and no table is written.
C22_StateEvent ==
    [][\A v \in VRPS, ts \in Time :
          FlutterRow("S", v, ts) =>
              /\ pc' = "process"
              /\ UNCHANGED <<latest_vrps, update_rows, insert_rows, store, tx>>
              /\ v \in DOMAIN latest_vrps =>
                    /\ UNCHANGED insert_vrps
                    /\ counters' = [counters EXCEPT !.unchanged = @ + 1]
              /\ v \notin DOMAIN latest_vrps =>
                    /\ DOMAIN insert_vrps' = DOMAIN insert_vrps \cup {v}
                    /\ insert_vrps'[v] = Range(ts, NoTs, "[)")
                    /\ \A w \in DOMAIN insert_vrps \ {v} : insert_vrps'[w] = insert_vrps[w]
                    /\ counters' = [counters EXCEPT !.new = @ + 1]]_vars

\* A committed event-stream run counted one unchanged and two new with one
\* VRP pending and none withdrawn: a state row of an active VRP, and a state
\* row of a VRP that was not active, which is stored open.
C22_Witness ==
    /\ pc = "done"
    /\ mode = "rpkiflutter"
    /\ counters = [deleted |-> 0, unchanged |-> 1, new |-> 2]
    /\ Cardinality(DOMAIN insert_vrps) = 1
    /\ \E r \in NewRows : IsOpen(r) /\ VrpOf(r) \in DOMAIN insert_vrps

\* ---- C23
\* The open records a committed event-stream run created.
C23_OpenedByRun == { r \in NewRows : IsOpen(r) }

\* C23: the last INSERT of an event-stream run adds, for every VRP of
\* insert_vrps, exactly one record, with the start recorded for the VRP and no
\* upper bound, and touches no other record; once the run is committed the open
\* records it created are those records and no other.
C23_PendingFlushedOpen ==
    /\ [][(mode = "rpkiflutter" /\ pc = "insert" /\ pc' = "commit") =>
            LET added == tx_vrps' \ tx_vrps
            IN  /\ tx_vrps \subseteq tx_vrps'
                /\ Cardinality(added) = Cardinality(DOMAIN insert_vrps)
                /\ \A v \in DOMAIN insert_vrps :
                      \E r \in added :
                          /\ VrpOf(r) = v
                          /\ r.visible = Range(insert_vrps[v].lower, NoTs, "[)")]_vars
    /\ []((pc = "done" /\ mode = "rpkiflutter") =>
            /\ Cardinality(C23_OpenedByRun) = Cardinality(DOMAIN insert_vrps)
            /\ { VrpOf(r) : r \in C23_OpenedByRun } = DOMAIN insert_vrps
            /\ \A r \in C23_OpenedByRun : r.visible.lower = insert_vrps[VrpOf(r)].lower)

\* A committed event-stream run flushed two pending VRPs with different start
\* times, the earlier one before the last timestamp of the stream.
C23_Witness ==
    /\ pc = "done"
    /\ mode = "rpkiflutter"
    /\ \E v, w \in DOMAIN insert_vrps :
          /\ insert_vrps[v].lower < insert_vrps[w].lower
          /\ insert_vrps[v].lower < df_max
          /\ \E r \in vrps : VrpOf(r) = v /\ IsOpen(r) /\ r.visible.lower = insert_vrps[v].lower

\* ---- C24
\* The records a committed run created or changed.
C24_WrittenByRun == { r \in vrps : r \notin pre_vrps }

\* C24: every row an event-stream run reads raises the run's maximum timestamp
\* to at least its own; the committed run appended one metadata row whose
\* dump_time is that maximum, and no bound of a record the run created or
\* changed is later than it.
C24_DumpTimeIsMaxEvent ==
    /\ [][\A type \in EventTypes, v \in VRPS, ts \in Time :
            FlutterRow(type, v, ts) => (df_max' >= ts /\ df_max' >= df_max /\ df_max' \in {df_max, ts})]_vars
    /\ []((pc = "done" /\ mode = "rpkiflutter") =>
            /\ Len(metadata) = Len(pre_metadata) + 1
            /\ metadata[Len(metadata)].dump_time = df_max
            /\ \A r \in C24_WrittenByRun :
                  /\ r.visible.lower <= metadata[Len(metadata)].dump_time
                  /\ ~IsOpen(r) => r.visible.upper <= metadata[Len(metadata)].dump_time)

\* A committed event-stream run, started from a store whose latest dump is
\* earlier than the stream's last timestamp, closed a record and opened one,
\* both at timestamps of the stream.
C24_Witness ==
    /\ pc = "done"
    /\ mode = "rpkiflutter"
    /\ latest_ts # NoTs
    /\ latest_ts < df_max
    /\ \E r, q \in C24_WrittenByRun :
          /\ ~IsOpen(r) /\ r.id \in Ids(pre_vrps) /\ r.visible.upper > latest_ts
          /\ IsOpen(q) /\ q.visible.lower = df_max

\* ---- C25
\* The VRPs that have an open record in the committed store.
C25_OpenVrps == { VrpOf(r) : r \in { q \in vrps : IsOpen(q) } }

\* C25: after every committed snapshot run the VRPs with an open record are
\* exactly the VRPs of the run's observation.
C25_OpenIsObservation ==
    (pc = "done" /\ mode = "rpkiviews") => C25_OpenVrps = new_vrps

\* ---- C26
\* The responses of a handler that read the dump time range from meta and the
\* rows from the committed vrps.
C26_Responses(meta) ==
    { VrpOnGet(vrps, meta, q, req[1], req[2], req[3]) :
        q \in CoveredPrefixes, req \in VrpRequests }

C26_Ordered(resp) ==
    resp.status = 200 => \A m \in resp.media : m.visible.from <= m.visible.to

\* C26: a handler reads the dump time range and then, in a statement of its
\* own, the rows.  Whether the run that has just committed did so before both
\* reads or between them, every VRP of a successful response has
\* visible.from <= visible.to.
C26_VisibleFromBeforeTo ==
    pc = "done" =>
        /\ \A resp \in C26_Responses(metadata) : C26_Ordered(resp)
        /\ \A resp \in C26_Responses(pre_metadata) : C26_Ordered(resp)

\* ---- C27
\* C27: a run leaves update_db by "No new data" only when no file URL was
\* found or the newest file is not later than the latest dump_time; that step
\* and the end of such a run write nothing, so the committed tables are those
\* the run started from and its transaction holds no change.
C27_NoNewDataChangesNothing ==
    /\ [][(pc' = "nodata" \/ pc = "nodata") => UNCHANGED <<store, tx>>]_vars
    /\ [](pc = "nodata" =>
            /\ vrps = pre_vrps
            /\ metadata = pre_metadata
            /\ tx_vrps = vrps
            /\ tx_metadata = metadata
            /\ ~new_file_url \/ latest_ts # NoTs
            /\ (new_file_url /\ mode = "rpkiviews") => new_ts <= latest_ts)

\* A snapshot run found a file as old as the latest dump of a store that
\* holds records, and returned without new data.
C27_Witness ==
    /\ pc = "nodata"
    /\ mode = "rpkiviews"
    /\ new_file_url
    /\ new_ts = latest_ts
    /\ vrps # {}
    /\ Len(metadata) > 1

====
